---- MODULE Spec2Model ----
(***************************************************************************)
(* Player screen controller of src/App.js (React Native / expo-av).        *)
(*                                                                         *)
(* The component state (useState cells), the asynchronous handlers that    *)
(* are suspended at an await, and the calls the handlers make into the     *)
(* playback engine, the alert service and the notification dispatcher.     *)
(* Every action is one run of a handler, or of the continuation of a       *)
(* handler after an await, on the single-threaded event loop; React        *)
(* commits a render between two such runs, so a handler reads the state of *)
(* the last render, and a continuation reads the state captured when its   *)
(* handler was called (its closure).                                       *)
(***************************************************************************)
EXTENDS Integers, Sequences, FiniteSets, TLC

VARIABLES
    videoList,          \* useState([])     : sequence of asset ids
    currentVideo,       \* useState(null)   : asset id or None
    isPlaying,          \* useState(false)
    position,           \* useState(0)      : milliseconds
    duration,           \* useState(0)      : milliseconds
    playbackRate,       \* useState(1.0)    : rate * 100
    volume,             \* useState(1.0)    : 0 or 1
    isLoading,          \* useState(false)
    permissionResponse, \* MediaLibrary.usePermissions() status
    loads,              \* loadLocalVideos calls suspended at an await
    plays,              \* playVideo calls suspended at unloadAsync
    toggles,            \* togglePlayPause calls suspended at pauseAsync / playAsync
    playRequested,      \* history: playVideo has been called at least once
    showWelcome,        \* useState(true)   : the welcome modal is visible
    entrance,           \* the entrance animation of lines 51-63
    timer,              \* the setTimeout of line 65
    fadeOut,            \* the fade-out animation of lines 66-70
    mounted,            \* the component is mounted
    session,            \* playback engine: the video loaded in the <Video>, or None
    loading,            \* playback engine: the sources it has been asked to load
    lastRequested,      \* history: the video of the latest playVideo call, or None
    op,                 \* the handler (and its argument) that ran last
    effects             \* the external calls that handler run made, in order

vars == <<videoList, currentVideo, isPlaying, position, duration, playbackRate,
          volume, isLoading, permissionResponse, loads, plays, toggles,
          playRequested, showWelcome, entrance, timer, fadeOut, mounted,
          session, loading, lastRequested, op, effects>>

\* the welcome splash, lines 43-74
splash == <<showWelcome, entrance, timer, fadeOut, mounted>>

\* the playback engine behind the <Video> of lines 290-304
engine == <<session, loading>>

\* what is followed only where the engine is observed
observed == <<session, loading, lastRequested>>

\* the controller's playback state named by the frame conditions
controllerState == <<videoList, currentVideo, isPlaying, isLoading, position, duration>>

-----------------------------------------------------------------------------
(* Bounds of the model *)

\* number of video assets on the device (the code asks for at most 50)
MaxAssets == 3
\* playVideo calls that may be suspended at unloadAsync at the same time
MaxPlays == 2
\* loadLocalVideos calls that may be suspended at the same time
MaxLoads == 1
\* suspended calls of either kind while the transport controls are explored
MaxSuspended == 1
\* togglePlayPause calls that may be suspended at the same time
MaxToggles == 2

-----------------------------------------------------------------------------
(* Values *)

None == 0
Undefined == -1

Ids == 1..MaxAssets

\* the asset lists the media library may return, in adapter order
FullList == [i \in 1..MaxAssets |-> i]
Enumerations == {<<>>, FullList, Tail(FullList)}

\* the lists a refresh may return after assets were deleted from the front:
\* every suffix of the full list, down to a single asset and none
Suffixes == {SubSeq(FullList, k, MaxAssets) : k \in 1..(MaxAssets + 1)}

\* the rates of changePlaybackRate, times 100
rates == <<50, 75, 100, 125, 150, 200>>

\* the seek buttons: seekVideo(-10) and seekVideo(10)
SeekSeconds == {-10, 10}

\* a status object of the playback engine
Status(loaded, pos, dur, playing, finished) ==
    [isLoaded |-> loaded, positionMillis |-> pos, durationMillis |-> dur,
     isPlaying |-> playing, didJustFinish |-> finished]

\* the statuses delivered while the playlist is explored: one position
PlaylistStatuses ==
    {Status(TRUE, 5000, 10000, pl, fin) : pl \in BOOLEAN, fin \in BOOLEAN}
    \cup {Status(FALSE, 0, Undefined, FALSE, fin) : fin \in BOOLEAN}

\* the statuses delivered while the transport controls are explored: also a
\* position more than ten seconds from both ends, and a status without duration
Statuses ==
    PlaylistStatuses
    \cup {Status(TRUE, 12000, 30000, TRUE, FALSE), Status(TRUE, 5000, Undefined, TRUE, FALSE)}

\* the times shown by the clock of line 311: whole and broken seconds around
\* ten seconds, one minute, ten minutes and one hour
Times == {0, 999, 1000, 9000, 9999, 10000, 59000, 59999, 60000, 61000,
          599000, 600000, 3599999, 3661000}

\* the statuses delivered while the clock is explored
ClockStatuses ==
    {Status(TRUE, pos, dur, TRUE, FALSE) : pos \in Times, dur \in Times \cup {Undefined}}

-----------------------------------------------------------------------------
(* Pure helpers *)

\* JavaScript's % : the result has the sign of the dividend
JsRem(a, n) == IF a >= 0 THEN a % n ELSE -((-a) % n)

\* Array.prototype.indexOf / findIndex on ids: 0-based, -1 when absent
IndexOf(seq, x) ==
    IF \E i \in 1..Len(seq) : seq[i] = x
    THEN (CHOOSE i \in 1..Len(seq) : seq[i] = x /\ \A j \in 1..(i-1) : seq[j] # x) - 1
    ELSE -1

\* seq[i] for a 0-based index i; Undefined when out of range
At(seq, i) == IF i >= 0 /\ i < Len(seq) THEN seq[i + 1] ELSE Undefined

Min(a, b) == IF a < b THEN a ELSE b
Max(a, b) == IF a > b THEN a ELSE b

\* x || 0
OrZero(x) == IF x = Undefined THEN 0 ELSE x

RemoveAt(seq, i) == SubSeq(seq, 1, i - 1) \o SubSeq(seq, i + 1, Len(seq))

\* videoRef.current is the mounted <Video>, which is rendered iff currentVideo
videoRef == currentVideo # None

-----------------------------------------------------------------------------
(* The component state as one value, so that a handler is the composition  *)
(* of its statements.                                                      *)

State ==
    [videoList |-> videoList, currentVideo |-> currentVideo, isPlaying |-> isPlaying,
     position |-> position, duration |-> duration, playbackRate |-> playbackRate,
     volume |-> volume, isLoading |-> isLoading,
     permissionResponse |-> permissionResponse, loads |-> loads, plays |-> plays,
     toggles |-> toggles, playRequested |-> playRequested, effects |-> <<>>]

\* the handler run `name(arg)` leaves the component in state t; no handler
\* touches the welcome splash
Commit(name, arg, t) ==
    /\ videoList' = t.videoList
    /\ currentVideo' = t.currentVideo
    /\ isPlaying' = t.isPlaying
    /\ position' = t.position
    /\ duration' = t.duration
    /\ playbackRate' = t.playbackRate
    /\ volume' = t.volume
    /\ isLoading' = t.isLoading
    /\ permissionResponse' = t.permissionResponse
    /\ loads' = t.loads
    /\ plays' = t.plays
    /\ toggles' = t.toggles
    /\ playRequested' = t.playRequested
    /\ UNCHANGED splash
    /\ effects' = t.effects
    /\ op' = [name |-> name, arg |-> arg]

\* a call into the playback engine, the alert service or the notifications
Emit(s, call, arg) == [s EXCEPT !.effects = Append(@, <<call, arg>>)]

-----------------------------------------------------------------------------
(* playVideo, lines 130-144 *)

\* a new video starts at normal speed
playVideoRestResetRate(s, video) ==
    Emit([s EXCEPT !.currentVideo = video, !.isPlaying = TRUE, !.isLoading = FALSE,
                   !.playbackRate = 100],
         "scheduleNotificationAsync", video)

\* lines 138-143: the part of playVideo after the unload
playVideoRest(s, video) ==
    Emit([s EXCEPT !.currentVideo = video, !.isPlaying = TRUE, !.isLoading = FALSE],
         "scheduleNotificationAsync", video)

\* lines 131-136 and, when there is nothing to unload, the rest: ref is
\* videoRef.current
playVideo(s, ref, video) ==
    LET s1 == [s EXCEPT !.isLoading = TRUE, !.playRequested = TRUE] IN
    IF ref
    THEN Emit([s1 EXCEPT !.plays = Append(@, video)], "unloadAsync", None)
    ELSE playVideoRest(s1, video)

\* onPress of a list item, line 239
TapVideo(video) ==
    /\ video \in Ids
    /\ \E i \in 1..Len(videoList) : videoList[i] = video
    /\ ~isLoading                       \* the list is not rendered while loading, line 388
    /\ LET t == playVideo(State, videoRef, video) IN
        /\ Len(t.plays) <= MaxPlays
        /\ Commit("playVideo", video, t)

\* unloadAsync of the i-th suspended playVideo resolves: lines 138-143
UnloadResolved(i) ==
    /\ i \in 1..Len(plays)
    /\ Commit("unloadResolved", plays[i],
              playVideoRest([State EXCEPT !.plays = RemoveAt(@, i)], plays[i]))

\* a failed unload clears the selection
UnloadRejectedClearsSelection(i) ==
    /\ i \in 1..Len(plays)
    /\ Commit("unloadRejected", plays[i],
              [State EXCEPT !.plays = RemoveAt(@, i), !.currentVideo = None])

\* unloadAsync rejects: the await at line 135 throws out of playVideo
UnloadRejected(i) ==
    /\ i \in 1..Len(plays)
    /\ Commit("unloadRejected", plays[i], [State EXCEPT !.plays = RemoveAt(@, i)])

-----------------------------------------------------------------------------
(* playNextVideo / playPreviousVideo, lines 170-184 *)

\* the index does not wrap at the end of the list
NextIndexNoWrap(currentIndex, length) ==
    IF currentIndex + 1 < length THEN currentIndex + 1 ELSE currentIndex

\* line 173
NextIndex(currentIndex, length) == JsRem(currentIndex + 1, length)

\* the length is not added before the remainder is taken
PrevIndexNoLength(currentIndex, length) == JsRem(currentIndex - 1, length)

\* line 181
PrevIndex(currentIndex, length) == JsRem(currentIndex - 1 + length, length)

\* line 171 / 179
CanSkip(s) == Len(s.videoList) > 0 /\ s.currentVideo # None

\* the length test of line 171 is missing
playNextVideoNoLengthCheck(s, ref) ==
    IF s.currentVideo # None
    THEN playVideo(s, ref,
                   IF Len(s.videoList) > 0
                   THEN At(s.videoList,
                           NextIndex(IndexOf(s.videoList, s.currentVideo), Len(s.videoList)))
                   ELSE Undefined)
    ELSE s

playNextVideo(s, ref) ==
    IF CanSkip(s)
    THEN playVideo(s, ref, At(s.videoList,
                      NextIndex(IndexOf(s.videoList, s.currentVideo), Len(s.videoList))))
    ELSE s

playPreviousVideo(s, ref) ==
    IF CanSkip(s)
    THEN playVideo(s, ref, At(s.videoList,
                      PrevIndex(IndexOf(s.videoList, s.currentVideo), Len(s.videoList))))
    ELSE s

\* onPress of the skip-forward button, line 347
PlayNextVideo ==
    LET t == playNextVideo(State, videoRef) IN
    /\ Len(t.plays) <= MaxPlays
    /\ Commit("playNextVideo", None, t)

\* onPress of the skip-back button, line 325
PlayPreviousVideo ==
    LET t == playPreviousVideo(State, videoRef) IN
    /\ Len(t.plays) <= MaxPlays
    /\ Commit("playPreviousVideo", None, t)

-----------------------------------------------------------------------------
(* handlePlaybackStatusUpdate, lines 157-168 *)

\* the end of a video goes back instead of forward
handlePlaybackStatusUpdateBackwards(s, ref, status) ==
    IF status.isLoaded
    THEN LET s1 == [s EXCEPT !.position = status.positionMillis,
                             !.duration = OrZero(status.durationMillis),
                             !.isPlaying = status.isPlaying]
         IN  IF status.didJustFinish THEN playPreviousVideo(s1, ref) ELSE s1
    ELSE s

\* the end of a video is acted on whether the status is loaded or not
handlePlaybackStatusUpdateAnyFinish(s, ref, status) ==
    LET s1 == IF status.isLoaded
              THEN [s EXCEPT !.position = status.positionMillis,
                             !.duration = OrZero(status.durationMillis),
                             !.isPlaying = status.isPlaying]
              ELSE s
    IN  IF status.didJustFinish THEN playNextVideo(s1, ref) ELSE s1

\* lines 157-168
handlePlaybackStatusUpdate(s, ref, status) ==
    IF status.isLoaded
    THEN LET s1 == [s EXCEPT !.position = status.positionMillis,
                             !.duration = OrZero(status.durationMillis),
                             !.isPlaying = status.isPlaying]
         IN  \* playNextVideo reads videoList and currentVideo of the render
             IF status.didJustFinish THEN playNextVideo(s1, ref) ELSE s1
    ELSE s

\* the <Video> of line 292 delivers a status
StatusUpdate(status) ==
    /\ status \in Statuses \cup ClockStatuses
    /\ videoRef
    /\ LET t == handlePlaybackStatusUpdate(State, videoRef, status) IN
        /\ Len(t.plays) <= MaxPlays
        /\ Commit("handlePlaybackStatusUpdate", status, t)

-----------------------------------------------------------------------------
(* loadLocalVideos, lines 100-128 *)

\* a suspended call: the await it is at, and the currentVideo of its closure
Load(stage, cur) == [stage |-> stage, cur |-> cur]

\* lines 101-102 and 109-111: the call up to its first await
loadLocalVideos(s) ==
    IF s.permissionResponse # "granted"
    THEN Emit([s EXCEPT !.loads = Append(@, Load("permission", s.currentVideo))],
              "requestPermission", None)
    ELSE Emit([s EXCEPT !.isLoading = TRUE,
                        !.loads = Append(@, Load("assets", s.currentVideo))],
              "getAssetsAsync", None)

\* lines 102-111: requestPermission has resolved with status
afterPermission(s, cur, status) ==
    IF status # "granted"
    THEN Emit(s, "alert", None)
    ELSE Emit([s EXCEPT !.isLoading = TRUE, !.loads = Append(@, Load("assets", cur))],
              "getAssetsAsync", None)

\* the test of the selection is inverted
ShouldAutoplayInverted(assets, cur) == Len(assets) > 0 /\ cur # None

\* line 119: cur is the currentVideo the call was made with
ShouldAutoplay(assets, cur) == Len(assets) > 0 /\ cur = None

\* lines 116-121 and 126: getAssetsAsync has resolved with assets
afterAssets(s, ref, cur, assets) ==
    LET s1 == [s EXCEPT !.videoList = assets]
        s2 == IF ShouldAutoplay(assets, cur) THEN playVideo(s1, ref, assets[1]) ELSE s1
    IN  [s2 EXCEPT !.isLoading = FALSE]

\* the finally block of line 125 is missing
afterAssetsErrorNoFinally(s) == Emit(s, "alert", None)

\* lines 122-126: getAssetsAsync has rejected
afterAssetsError(s) == [Emit(s, "alert", None) EXCEPT !.isLoading = FALSE]

\* the status a permission request resolves with: a granted permission stays
\* granted for the life of the process
PermissionAnswers == IF permissionResponse = "granted" THEN {"granted"}
                     ELSE {"granted", "denied"}

\* onPress of a refresh button, lines 369, 383, 402
LoadLocalVideos ==
    /\ Len(loads) < MaxLoads
    /\ Commit("loadLocalVideos", None, loadLocalVideos(State))

\* a refresh button pressed while MaxLoads earlier calls are still suspended
LoadLocalVideosAgain ==
    /\ Len(loads) = MaxLoads
    /\ Commit("loadLocalVideos", None, loadLocalVideos(State))

\* requestPermission of the i-th suspended call resolves; the hook stores the status
PermissionResolved(i, status) ==
    /\ i \in 1..Len(loads)
    /\ loads[i].stage = "permission"
    /\ status \in PermissionAnswers
    /\ Commit("permissionResolved", status,
              afterPermission([State EXCEPT !.loads = RemoveAt(@, i),
                                            !.permissionResponse = status],
                              loads[i].cur, status))

\* getAssetsAsync of the i-th suspended call resolves
AssetsResolved(i, assets) ==
    /\ i \in 1..Len(loads)
    /\ loads[i].stage = "assets"
    /\ assets \in Enumerations \cup Suffixes
    /\ LET t == afterAssets([State EXCEPT !.loads = RemoveAt(@, i)], videoRef,
                            loads[i].cur, assets) IN
        /\ Len(t.plays) <= MaxPlays
        /\ Commit("assetsResolved", assets, t)

\* getAssetsAsync of the i-th suspended call rejects
AssetsRejected(i) ==
    /\ i \in 1..Len(loads)
    /\ loads[i].stage = "assets"
    /\ Commit("assetsRejected", None, afterAssetsError([State EXCEPT !.loads = RemoveAt(@, i)]))

-----------------------------------------------------------------------------
(* seekVideo, changePlaybackRate, toggleVolume: lines 186-218 *)

\* the lower bound of the clamp is missing
SeekTargetNoFloor(pos, seconds, dur) == Min(pos + seconds * 1000, dur)

\* line 189
SeekTarget(pos, seconds, dur) == Max(0, Min(pos + seconds * 1000, dur))

seekVideo(s, ref, seconds) ==
    IF ref THEN Emit(s, "setPositionAsync", SeekTarget(s.position, seconds, s.duration))
    ELSE s

\* the index does not wrap after the last rate
NextRateNoWrap(rate) == rates[Min(IndexOf(rates, rate) + 1, Len(rates) - 1) + 1]

\* lines 202-205
NextRate(rate) == rates[JsRem(IndexOf(rates, rate) + 1, Len(rates)) + 1]

changePlaybackRate(s, ref) ==
    LET newRate == NextRate(s.playbackRate)
        s1 == [s EXCEPT !.playbackRate = newRate]
    IN  IF ref THEN Emit(s1, "setRateAsync", newRate) ELSE s1

\* the toggle only mutes
NewVolumeMuteOnly(vol) == 0

\* line 213
NewVolume(vol) == IF vol = 1 THEN 0 ELSE 1

toggleVolume(s, ref) ==
    LET newVolume == NewVolume(s.volume)
        s1 == [s EXCEPT !.volume = newVolume]
    IN  IF ref THEN Emit(s1, "setVolumeAsync", newVolume) ELSE s1

\* onPress of the -10s / +10s buttons, lines 329 and 342
SeekVideo(seconds) ==
    /\ seconds \in SeekSeconds
    /\ Commit("seekVideo", seconds, seekVideo(State, videoRef, seconds))

\* onPress of the rate button, line 354
ChangePlaybackRate == Commit("changePlaybackRate", None, changePlaybackRate(State, videoRef))

\* onPress of the volume button, line 359
ToggleVolume == Commit("toggleVolume", None, toggleVolume(State, videoRef))

-----------------------------------------------------------------------------
(* formatTime, lines 194-199; a text is the sequence of its characters *)

Digit(d) == <<"0", "1", "2", "3", "4", "5", "6", "7", "8", "9">>[d + 1]

\* the decimal text `${n}` of a non-negative integer
RECURSIVE Decimal(_)
Decimal(n) == IF n < 10 THEN <<Digit(n)>> ELSE Decimal(n \div 10) \o <<Digit(n % 10)>>

\* the seconds are rounded to the nearest
formatTimeRounded(millis) ==
    LET totalSeconds == (millis + 500) \div 1000
        minutes == totalSeconds \div 60
        seconds == totalSeconds % 60
    IN  Decimal(minutes) \o <<":">> \o (IF seconds < 10 THEN <<"0">> ELSE <<>>) \o Decimal(seconds)

formatTime(millis) ==
    LET totalSeconds == millis \div 1000
        minutes == totalSeconds \div 60
        seconds == totalSeconds % 60
    IN  Decimal(minutes) \o <<":">> \o (IF seconds < 10 THEN <<"0">> ELSE <<>>) \o Decimal(seconds)

\* the clock under the video, line 311
timeText == <<formatTime(position), formatTime(duration)>>

-----------------------------------------------------------------------------
(* togglePlayPause, lines 146-155 *)

\* a togglePlayPause call suspended at its engine call: the isPlaying of its
\* closure and the call it made
Toggle(playing) == [isPlaying |-> playing, call |-> IF playing THEN "pauseAsync" ELSE "playAsync"]

\* lines 147-152, up to the await: ref is videoRef.current
togglePlayPause(s, ref) ==
    IF ~ref
    THEN s
    ELSE Emit([s EXCEPT !.toggles = Append(@, Toggle(s.isPlaying))],
              Toggle(s.isPlaying).call, None)

\* the flag is set to the value of the closure
afterToggleNoInvert(s, toggle) == [s EXCEPT !.isPlaying = toggle.isPlaying]

\* line 154, after the await: setIsPlaying(!isPlaying) with the closure's isPlaying
afterToggle(s, toggle) == [s EXCEPT !.isPlaying = ~toggle.isPlaying]

\* onPress of the play button, line 334
TogglePlayPause ==
    LET t == togglePlayPause(State, videoRef) IN
    /\ Len(t.toggles) <= MaxToggles
    /\ Commit("togglePlayPause", None, t)

\* pauseAsync / playAsync of the i-th suspended call resolves
ToggleResolved(i) ==
    /\ i \in 1..Len(toggles)
    /\ Commit("toggleResolved", toggles[i],
              afterToggle([State EXCEPT !.toggles = RemoveAt(@, i)], toggles[i]))

\* pauseAsync / playAsync rejects: the await throws out of togglePlayPause
ToggleRejected(i) ==
    /\ i \in 1..Len(toggles)
    /\ Commit("toggleRejected", toggles[i], [State EXCEPT !.toggles = RemoveAt(@, i)])

-----------------------------------------------------------------------------
(* The welcome splash, lines 43-74 and 256-258.  The effect of line 49 has  *)
(* started the entrance animation and the 3000 ms timer at mount.           *)

\* the component state apart from the splash
screen == <<videoList, currentVideo, isPlaying, position, duration, playbackRate,
            volume, isLoading, permissionResponse, loads, plays, toggles, playRequested>>

\* a step of the splash: no handler of the screen runs
SplashStep(name, calls) ==
    /\ op' = [name |-> name, arg |-> None]
    /\ effects' = calls
    /\ UNCHANGED screen

\* Animated.parallel of lines 50-63 runs to its end values
EntranceFinished ==
    /\ entrance = "running"
    /\ entrance' = "finished"
    /\ UNCHANGED <<showWelcome, timer, fadeOut, mounted>>
    /\ SplashStep("entranceFinished", <<>>)

\* the timer callback hides the modal without waiting for the fade-out
TimerFiredHidesAtOnce ==
    /\ timer = "pending"
    /\ timer' = "fired"
    /\ fadeOut' = "running"
    /\ showWelcome' = FALSE
    /\ UNCHANGED <<entrance, mounted>>
    /\ SplashStep("timerFired", <<<<"Animated.timing", 0>>>>)

\* the callback of setTimeout, lines 65-71: starts the fade-out to opacity 0
TimerFired ==
    /\ timer = "pending"
    /\ timer' = "fired"
    /\ fadeOut' = "running"
    /\ UNCHANGED <<showWelcome, entrance, mounted>>
    /\ SplashStep("timerFired", <<<<"Animated.timing", 0>>>>)

\* the callback of start(), line 70: setShowWelcome(false); React drops the
\* update of a component that is no longer mounted
FadeOutFinished ==
    /\ fadeOut = "running"
    /\ fadeOut' = "finished"
    /\ showWelcome' = IF mounted THEN FALSE ELSE showWelcome
    /\ UNCHANGED <<entrance, timer, mounted>>
    /\ SplashStep("fadeOutFinished", <<>>)

\* the cleanup does not clear the timer
UnmountKeepsTimer ==
    /\ mounted
    /\ mounted' = FALSE
    /\ UNCHANGED <<showWelcome, entrance, timer, fadeOut>>
    /\ SplashStep("unmount", <<>>)

\* the screen unmounts: the cleanup of line 73 clears the timer
Unmount ==
    /\ mounted
    /\ mounted' = FALSE
    /\ timer' = IF timer = "pending" THEN "cleared" ELSE timer
    /\ UNCHANGED <<showWelcome, entrance, fadeOut>>
    /\ SplashStep("unmount", <<<<"clearTimeout", None>>>>)

\* the state machine of the splash
phase ==
    IF ~showWelcome THEN "Dismissed"
    ELSE IF fadeOut # "idle" THEN "FadingOut"
    ELSE IF entrance = "running" THEN "Entering"
    ELSE "Visible"

-----------------------------------------------------------------------------
(* The playback engine behind the <Video> of lines 290-304: it holds at     *)
(* most one loaded source (session), loads the sources it is given in the   *)
(* order it is given them (loading), and reports a loaded status only while *)
(* a source is loaded.                                                      *)

Called(call) == \E k \in 1..Len(effects') : effects'[k][1] = call

\* what a handler run asks of the engine: unloadAsync (line 135) empties it;
\* the render after setCurrentVideo (line 138) gives it the new source
\* (line 295), which it loads while whatever it holds keeps playing
EngineFollows ==
    IF Called("unloadAsync")
    THEN session' = None /\ loading' = <<>>
    ELSE IF Called("scheduleNotificationAsync")
    THEN session' = session /\ loading' = Append(loading, currentVideo')
    ELSE UNCHANGED engine

\* the video of the playVideo call a handler run has made, if it made one:
\* the call is now suspended at its unload or, with nothing to unload, has
\* made the first selection
RequestFollows ==
    lastRequested' = IF Len(plays') > Len(plays) THEN plays'[Len(plays')]
                     ELSE IF currentVideo = None /\ currentVideo' # None THEN currentVideo'
                     ELSE lastRequested

Observed == EngineFollows /\ RequestFollows

\* the engine has loaded the next source it was given
SourceLoaded ==
    /\ loading # <<>>
    /\ session' = Head(loading)
    /\ loading' = Tail(loading)
    /\ op' = [name |-> "sourceLoaded", arg |-> Head(loading)]
    /\ effects' = <<>>
    /\ UNCHANGED screen
    /\ UNCHANGED splash
    /\ UNCHANGED lastRequested

\* the engine reports on the source it holds, to the callback of line 299
EngineStatus(status) ==
    /\ status.isLoaded <=> session # None
    /\ StatusUpdate(status)
    /\ Observed

-----------------------------------------------------------------------------
(* The screen after mount: the effect of line 96 has called loadLocalVideos *)
(* with the state of the first render.                                     *)

Init ==
    /\ videoList = <<>>
    /\ currentVideo = None
    /\ isPlaying = FALSE
    /\ position = 0
    /\ duration = 0
    /\ playbackRate = 100
    /\ volume = 1
    /\ isLoading = FALSE
    /\ permissionResponse = "null"
    /\ loads = <<Load("permission", None)>>
    /\ plays = <<>>
    /\ toggles = <<>>
    /\ playRequested = FALSE
    /\ showWelcome = TRUE
    /\ entrance = "running"
    /\ timer = "pending"
    /\ fadeOut = "idle"
    /\ mounted = TRUE
    /\ session = None
    /\ loading = <<>>
    /\ lastRequested = None
    /\ op = [name |-> "mount", arg |-> None]
    /\ effects = <<<<"requestPermission", None>>>>

\* the playlist, the refresh and the playback engine's events; the statuses
\* are free inputs, the engine behind them is not observed
Next ==
    \/ LoadLocalVideos /\ UNCHANGED observed
    \/ \E i \in 1..MaxLoads, status \in {"granted", "denied"} : PermissionResolved(i, status) /\ UNCHANGED observed
    \/ \E i \in 1..MaxLoads, assets \in Enumerations : AssetsResolved(i, assets) /\ UNCHANGED observed
    \/ \E i \in 1..MaxLoads : AssetsRejected(i) /\ UNCHANGED observed
    \/ \E video \in Ids : TapVideo(video) /\ UNCHANGED observed
    \/ \E i \in 1..MaxPlays : UnloadResolved(i) /\ UNCHANGED observed
    \/ \E i \in 1..MaxPlays : UnloadRejected(i) /\ UNCHANGED observed
    \/ PlayNextVideo /\ UNCHANGED observed
    \/ PlayPreviousVideo /\ UNCHANGED observed
    \/ \E status \in PlaylistStatuses : StatusUpdate(status) /\ UNCHANGED observed

Spec == Init /\ [][Next]_vars

\* The transport controls read videoRef and their own state cell only, so
\* they are explored together with the handlers above while at most
\* MaxSuspended calls are suspended.
Calm == Len(plays') + Len(loads') <= MaxSuspended

NextControls ==
    \/ \E seconds \in SeekSeconds : SeekVideo(seconds) /\ UNCHANGED observed
    \/ ChangePlaybackRate /\ UNCHANGED observed
    \/ ToggleVolume /\ UNCHANGED observed
    \/ LoadLocalVideos /\ Calm /\ UNCHANGED observed
    \/ \E i \in 1..MaxLoads, status \in {"granted", "denied"} : PermissionResolved(i, status) /\ Calm /\ UNCHANGED observed
    \/ \E i \in 1..MaxLoads, assets \in Enumerations : AssetsResolved(i, assets) /\ Calm /\ UNCHANGED observed
    \/ \E i \in 1..MaxLoads : AssetsRejected(i) /\ UNCHANGED observed
    \/ \E video \in Ids : TapVideo(video) /\ Calm /\ UNCHANGED observed
    \/ \E i \in 1..MaxPlays : UnloadResolved(i) /\ UNCHANGED observed
    \/ \E i \in 1..MaxPlays : UnloadRejected(i) /\ UNCHANGED observed
    \/ PlayNextVideo /\ Calm /\ UNCHANGED observed
    \/ PlayPreviousVideo /\ Calm /\ UNCHANGED observed
    \/ \E status \in Statuses : StatusUpdate(status) /\ Calm /\ UNCHANGED observed

SpecControls == Init /\ [][NextControls]_vars

\* The play button: taps while earlier taps are still suspended, with the
\* statuses of the engine and the automatic advance in between.
NextToggle ==
    \/ TogglePlayPause /\ UNCHANGED observed
    \/ \E i \in 1..MaxToggles : ToggleResolved(i) /\ UNCHANGED observed
    \/ \E i \in 1..MaxToggles : ToggleRejected(i) /\ UNCHANGED observed
    \/ \E i \in 1..MaxLoads, status \in {"granted", "denied"} : PermissionResolved(i, status) /\ UNCHANGED observed
    \/ \E i \in 1..MaxLoads, assets \in Enumerations : AssetsResolved(i, assets) /\ UNCHANGED observed
    \/ \E i \in 1..MaxPlays : UnloadResolved(i) /\ UNCHANGED observed
    \/ \E status \in PlaylistStatuses : StatusUpdate(status) /\ Calm /\ UNCHANGED observed

SpecToggle == Init /\ [][NextToggle]_vars

\* The clock: the first video is played and the engine reports its times.
NextClock ==
    \/ \E i \in 1..MaxLoads, status \in {"granted", "denied"} : PermissionResolved(i, status) /\ UNCHANGED observed
    \/ \E i \in 1..MaxLoads, assets \in Enumerations : AssetsResolved(i, assets) /\ UNCHANGED observed
    \/ \E status \in ClockStatuses : StatusUpdate(status) /\ UNCHANGED observed

SpecClock == Init /\ [][NextClock]_vars

\* The splash over the starting screen: the first load and the engine's
\* statuses go on behind the modal, which takes the taps until it is gone.
NextSplash ==
    \/ EntranceFinished /\ UNCHANGED observed
    \/ TimerFired /\ UNCHANGED observed
    \/ FadeOutFinished /\ UNCHANGED observed
    \/ Unmount /\ UNCHANGED observed
    \/ \E i \in 1..MaxLoads, status \in {"granted", "denied"} : mounted /\ PermissionResolved(i, status) /\ UNCHANGED observed
    \/ \E i \in 1..MaxLoads, assets \in Enumerations : mounted /\ AssetsResolved(i, assets) /\ UNCHANGED observed
    \/ \E i \in 1..MaxPlays : mounted /\ UnloadResolved(i) /\ UNCHANGED observed
    \/ \E status \in PlaylistStatuses : mounted /\ StatusUpdate(status) /\ Calm /\ UNCHANGED observed
    \/ mounted /\ ~showWelcome /\ ToggleVolume /\ UNCHANGED observed

SpecSplash == Init /\ [][NextSplash]_vars

\* The playlist with the engine observed: every status comes from the source
\* the engine holds.
NextEngine ==
    \/ \E i \in 1..MaxLoads, status \in {"granted", "denied"} : PermissionResolved(i, status) /\ Observed
    \/ \E i \in 1..MaxLoads, assets \in Enumerations : AssetsResolved(i, assets) /\ Observed
    \/ \E video \in Ids : TapVideo(video) /\ Observed
    \/ \E i \in 1..MaxPlays : UnloadResolved(i) /\ Observed
    \/ PlayNextVideo /\ Observed
    \/ PlayPreviousVideo /\ Observed
    \/ \E status \in PlaylistStatuses : EngineStatus(status)
    \/ SourceLoaded

SpecEngine == Init /\ [][NextEngine]_vars

\* The refresh: one call more than MaxLoads may be suspended, so that a
\* refresh overlaps the load of the mount or another refresh.
NextRefresh ==
    \/ LoadLocalVideos /\ UNCHANGED observed
    \/ LoadLocalVideosAgain /\ UNCHANGED observed
    \/ \E i \in 1..(MaxLoads + 1), status \in {"granted", "denied"} : PermissionResolved(i, status) /\ UNCHANGED observed
    \/ \E i \in 1..(MaxLoads + 1), assets \in Enumerations : AssetsResolved(i, assets) /\ UNCHANGED observed
    \/ \E i \in 1..(MaxLoads + 1) : AssetsRejected(i) /\ UNCHANGED observed
    \/ \E video \in Ids : TapVideo(video) /\ UNCHANGED observed
    \/ \E i \in 1..MaxPlays : UnloadResolved(i) /\ UNCHANGED observed

SpecRefresh == Init /\ [][NextRefresh]_vars

\* The skip buttons over a list that a refresh has shortened: the selected
\* video may no longer be in the list, and the list may hold a single asset.
NextSkip ==
    \/ LoadLocalVideos /\ Calm /\ UNCHANGED observed
    \/ \E i \in 1..MaxLoads, status \in {"granted", "denied"} : PermissionResolved(i, status) /\ Calm /\ UNCHANGED observed
    \/ \E i \in 1..MaxLoads, assets \in Suffixes : AssetsResolved(i, assets) /\ UNCHANGED observed
    \/ \E i \in 1..MaxPlays : UnloadResolved(i) /\ UNCHANGED observed
    \/ PlayNextVideo /\ Calm /\ UNCHANGED observed
    \/ PlayPreviousVideo /\ Calm /\ UNCHANGED observed
    \/ \E status \in PlaylistStatuses : StatusUpdate(status) /\ Calm /\ UNCHANGED observed

SpecSkip == Init /\ [][NextSkip]_vars

-----------------------------------------------------------------------------
(* Properties *)

\* C1: for a non-empty videoList (distinct ids) and a currentVideo at a valid
\* index i, playNextVideo calls playVideo with the video at index (i+1) mod
\* length; a completed call makes that video current; and length such steps
\* from currentVideo lead back to currentVideo.
C1_NextIsCircular ==
    LET n == Len(videoList)
        idx(v) == CHOOSE i \in 1..n : videoList[i] = v
        valid == n > 0 /\ \E i \in 1..n : videoList[i] = currentVideo
        chosen(v) == At(videoList, NextIndex(IndexOf(videoList, v), n))
        walk[k \in 0..MaxAssets] == IF k = 0 THEN currentVideo ELSE chosen(walk[k - 1])
    IN  /\ (op.name = "playNextVideo" /\ valid)
            => /\ plays # <<>>
               /\ plays[Len(plays)] = videoList[(idx(currentVideo) % n) + 1]
        /\ op.name = "unloadResolved" => currentVideo = op.arg
        /\ valid => walk[n] = currentVideo

\* C1 witness: playNextVideo on the last video of the full list has asked for the first
C1_Witness ==
    /\ op.name = "playNextVideo"
    /\ videoList = FullList
    /\ currentVideo = MaxAssets
    /\ plays # <<>> /\ plays[Len(plays)] = 1

\* C2: a loaded status with didJustFinish, delivered while currentVideo is at
\* index i of a non-empty videoList, makes the controller ask for the video at
\* index (i+1) mod length (index 0 from the last video), and that video is
\* current once the unload of the finished session has resolved.
C2_FinishAdvances ==
    LET n == Len(videoList)
        idx(v) == CHOOSE i \in 1..n : videoList[i] = v
        valid == n > 0 /\ \E i \in 1..n : videoList[i] = currentVideo
    IN  /\ (/\ op.name = "handlePlaybackStatusUpdate"
             /\ op.arg.isLoaded /\ op.arg.didJustFinish
             /\ valid)
            => /\ effects = <<<<"unloadAsync", None>>>>
               /\ plays # <<>>
               /\ plays[Len(plays)] = videoList[(idx(currentVideo) % n) + 1]
               /\ (currentVideo = videoList[n] => plays[Len(plays)] = videoList[1])
        /\ op.name = "unloadResolved"
            => currentVideo = op.arg /\ effects = <<<<"scheduleNotificationAsync", op.arg>>>>

\* C2 witness: the last video of the full list has just finished
C2_Witness ==
    /\ op.name = "handlePlaybackStatusUpdate"
    /\ op.arg.isLoaded /\ op.arg.didJustFinish
    /\ videoList = FullList /\ Len(videoList) >= 3
    /\ currentVideo = videoList[Len(videoList)]
    /\ plays = <<videoList[1]>>

\* C3 (as amended): changePlaybackRate cycles through exactly the six values
\* 0.5, 0.75, 1.0, 1.25, 1.5, 2.0 in that order, wrapping from 2.0 to 0.5, and
\* six invocations return to the rate they started from, whatever it was.
C3_RateCycle ==
    [][LET six(r) == NextRate(NextRate(NextRate(NextRate(NextRate(NextRate(r))))))
       IN  /\ playbackRate' \in {50, 75, 100, 125, 150, 200}
           /\ op'.name = "changePlaybackRate"
               => playbackRate' = CASE playbackRate = 50  -> 75
                                    [] playbackRate = 75  -> 100
                                    [] playbackRate = 100 -> 125
                                    [] playbackRate = 125 -> 150
                                    [] playbackRate = 150 -> 200
                                    [] playbackRate = 200 -> 50
           /\ six(playbackRate') = playbackRate']_vars

\* C3 witness: the rate has wrapped from 2.0 to 0.5
C3_Witness ==
    /\ op.name = "changePlaybackRate"
    /\ playbackRate = 50
    /\ effects = <<<<"setRateAsync", 50>>>>

\* C3 as stated: six invocations return to 0.5 regardless of the starting rate
C3_Original ==
    [][LET six(r) == NextRate(NextRate(NextRate(NextRate(NextRate(NextRate(r))))))
       IN  /\ playbackRate' \in {50, 75, 100, 125, 150, 200}
           /\ op'.name = "changePlaybackRate" => six(playbackRate') = 50]_vars

\* C4: seekVideo(seconds) asks the engine for exactly
\* clamp(position + seconds*1000, 0, duration), a position within
\* [0, duration]; from position 5000 of 10000, -10 asks for 0 and +10 for 10000.
C4_SeekClamped ==
    op.name = "seekVideo" =>
        LET raw == position + op.arg * 1000
            clamp == IF raw < 0 THEN 0 ELSE IF raw > duration THEN duration ELSE raw
        IN  /\ duration >= 0
            /\ clamp \in 0..duration
            /\ effects = IF currentVideo # None THEN <<<<"setPositionAsync", clamp>>>>
                         ELSE <<>>
            /\ \A k \in 1..Len(effects) : effects[k][2] \in 0..duration
            /\ (position = 5000 /\ duration = 10000 /\ op.arg = -10)
                => effects = <<<<"setPositionAsync", 0>>>>
            /\ (position = 5000 /\ duration = 10000 /\ op.arg = 10)
                => effects = <<<<"setPositionAsync", 10000>>>>

\* C4 witness: seekVideo(-10) at position 5000 of 10000 has asked for 0
C4_Witness ==
    /\ op.name = "seekVideo" /\ op.arg = -10
    /\ position = 5000 /\ duration = 10000
    /\ effects = <<<<"setPositionAsync", 0>>>>

\* C5: volume is always 0.0 or 1.0, toggleVolume flips it, and a second
\* toggleVolume gives back the volume before the first.
C5_ToggleInverse ==
    /\ volume \in {0, 1}
    /\ [][/\ volume' \in {0, 1}
          /\ op'.name = "toggleVolume"
              => /\ volume' = 1 - volume
                 /\ NewVolume(volume') = volume]_vars

\* C5 witness: the second of two toggles has restored full volume on a session
C5_Witness ==
    /\ op.name = "toggleVolume"
    /\ volume = 1
    /\ effects = <<<<"setVolumeAsync", 1>>>>

\* C6: with an empty videoList or no selected video, playNextVideo and
\* playPreviousVideo change no controller state, call nothing in the playback
\* engine and send no notification.
C6_SkipNoop ==
    [][(/\ op'.name \in {"playNextVideo", "playPreviousVideo"}
        /\ (videoList = <<>> \/ currentVideo = None))
       => /\ UNCHANGED controllerState
          /\ UNCHANGED <<playbackRate, volume, permissionResponse, loads, plays>>
          /\ effects' = <<>>]_vars

\* C6 witness: playNextVideo on an empty list while a video is selected
C6_Witness ==
    /\ op.name = "playNextVideo"
    /\ videoList = <<>>
    /\ currentVideo # None
    /\ effects = <<>>

\* C7: a loadLocalVideos call that fails, by a denied permission or by an error
\* of the enumeration, alerts the user, leaves videoList and currentVideo as
\* they were, and leaves isLoading false.
C7_LoadFailure ==
    [][(\/ op'.name = "permissionResolved" /\ op'.arg # "granted"
        \/ op'.name = "assetsRejected")
       => /\ videoList' = videoList
          /\ currentVideo' = currentVideo
          /\ effects' = <<<<"alert", None>>>>
          /\ isLoading' = FALSE]_vars

\* C7 witness: a refresh of a loaded list has failed in the enumeration
C7_Witness ==
    /\ op.name = "assetsRejected"
    /\ videoList # <<>>
    /\ currentVideo # None
    /\ ~isLoading

\* C8: a successful load with a non-empty result, arriving while videoList is
\* empty and no video is selected, replaces videoList by the result in adapter
\* order and starts the first asset: it is current and isPlaying is true.
C8_AutoplayFirst ==
    [][(/\ op'.name = "assetsResolved"
        /\ op'.arg # <<>>
        /\ videoList = <<>>
        /\ currentVideo = None)
       => /\ videoList' = op'.arg
          /\ currentVideo' = op'.arg[1]
          /\ isPlaying'
          /\ effects' = <<<<"scheduleNotificationAsync", op'.arg[1]>>>>]_vars

\* C8 witness: the first load returned the shortened list and its first asset plays
C8_Witness ==
    /\ op.name = "assetsResolved"
    /\ op.arg = Tail(FullList)
    /\ videoList = Tail(FullList)
    /\ currentVideo = FullList[2]
    /\ isPlaying

\* C9: a failed unload of the previous session does not block playVideo(video):
\* video is current, isPlaying is true and isLoading is false afterwards.
C9_UnloadFailureIgnored ==
    op.name = "unloadRejected"
        => currentVideo = op.arg /\ isPlaying /\ ~isLoading

\* C10: no handler but changePlaybackRate changes playbackRate and none but
\* toggleVolume changes volume; in particular playVideo, from a list tap,
\* next, previous or the autoplay advance, keeps both.
C10_RateVolumePersist ==
    [][/\ op'.name # "changePlaybackRate" => playbackRate' = playbackRate
       /\ op'.name # "toggleVolume" => volume' = volume
       /\ op'.name \in {"playVideo", "playNextVideo", "playPreviousVideo",
                        "handlePlaybackStatusUpdate", "unloadResolved",
                        "assetsResolved"}
           => UNCHANGED <<playbackRate, volume>>]_vars

\* C10 witness: a video switch has completed at rate 1.5 with the sound muted
C10_Witness ==
    /\ op.name = "unloadResolved"
    /\ playbackRate = 150
    /\ volume = 0
    /\ currentVideo = op.arg

\* C11: a togglePlayPause call made without a session changes no state and
\* calls nothing; one made with a session sends pauseAsync when isPlaying was
\* true and playAsync when it was false, and when that call returns isPlaying
\* is the negation of what it was at the call, which is the state the command
\* asked the engine for.
C11_ToggleMatchesCommand ==
    [][/\ (op'.name = "togglePlayPause" /\ ~videoRef)
           => /\ effects' = <<>>
              /\ UNCHANGED <<controllerState, playbackRate, volume, toggles, plays, loads>>
       /\ (op'.name = "togglePlayPause" /\ videoRef)
           => /\ effects' = <<<<IF isPlaying THEN "pauseAsync" ELSE "playAsync", None>>>>
              /\ toggles' = Append(toggles, [isPlaying |-> isPlaying, call |-> effects'[1][1]])
              /\ UNCHANGED <<controllerState, playbackRate, volume, plays, loads>>
       /\ op'.name = "toggleResolved"
           => /\ isPlaying' = ~op'.arg.isPlaying
              /\ isPlaying' = (op'.arg.call = "playAsync")
              /\ UNCHANGED <<videoList, currentVideo, isLoading, position, duration>>
      ]_vars

\* a toggle sent while playing has returned and has cleared isPlaying, while a
\* toggle sent while paused is still suspended at playAsync
C11_Witness ==
    /\ op.name = "toggleResolved"
    /\ op.arg.isPlaying
    /\ ~isPlaying
    /\ Len(toggles) = 1
    /\ toggles[1].call = "playAsync"

\* C12: for the non-negative position and duration on the clock, formatTime
\* gives the minutes floor(ms/60000) without padding, a colon, and the seconds
\* floor(ms/1000) mod 60 as two digits; 0 gives 0:00, 59000 gives 0:59, 60000
\* gives 1:00 and 3661000 gives 61:01.
C12_FormatTime ==
    LET Minutes(ms) == ms \div 60000
        Seconds(ms) == (ms \div 1000) % 60
        Text(ms) == Decimal(Minutes(ms)) \o <<":", Digit(Seconds(ms) \div 10), Digit(Seconds(ms) % 10)>>
    IN  \A ms \in {position, duration} :
            /\ ms >= 0
            /\ formatTime(ms) = Text(ms)
            /\ ms = 0 => formatTime(ms) = <<"0", ":", "0", "0">>
            /\ ms = 59000 => formatTime(ms) = <<"0", ":", "5", "9">>
            /\ ms = 60000 => formatTime(ms) = <<"1", ":", "0", "0">>
            /\ ms = 3661000 => formatTime(ms) = <<"6", "1", ":", "0", "1">>

\* the clock shows 0:59 / 61:01 for a status inside the sixtieth second
C12_Witness ==
    /\ currentVideo # None
    /\ position = 59999
    /\ duration = 3661000
    /\ timeText = << <<"0", ":", "5", "9">>, <<"6", "1", ":", "0", "1">> >>

\* C13: the splash never goes back in Entering, Visible, FadingOut, Dismissed;
\* the fade-out is started by the firing of the timer and by nothing else,
\* with the entrance animation finished or not; showWelcome becomes false
\* only when the running fade-out completes; and once false it stays false.
C13_SplashOrder ==
    [][LET Rank(ph) == CASE ph = "Entering" -> 1 [] ph = "Visible" -> 2
                         [] ph = "FadingOut" -> 3 [] ph = "Dismissed" -> 4
       IN  /\ Rank(phase') >= Rank(phase)
           /\ (fadeOut = "idle" /\ fadeOut' # "idle")
               => op'.name = "timerFired" /\ timer = "pending" /\ timer' = "fired"
           /\ (timer = "pending" /\ timer' = "fired") => fadeOut = "idle" /\ fadeOut' = "running"
           /\ (showWelcome /\ ~showWelcome')
               => op'.name = "fadeOutFinished" /\ fadeOut = "running" /\ phase = "FadingOut"
           /\ ~showWelcome => ~showWelcome'
      ]_vars

\* the splash has been dismissed by a fade-out that the timer started while
\* the entrance animation was still running, and the screen is used after it
C13_Witness ==
    /\ ~showWelcome
    /\ timer = "fired"
    /\ fadeOut = "finished"
    /\ entrance = "running"
    /\ op.name = "toggleVolume"

\* C14: when the screen has unmounted before the timer fired, no later step
\* starts the fade-out and none calls setShowWelcome.
C14_UnmountCancels ==
    [][(~mounted /\ fadeOut = "idle")
       => /\ fadeOut' = "idle"
          /\ showWelcome' = showWelcome
          /\ op'.name \notin {"timerFired", "fadeOutFinished"}
      ]_vars

\* the screen unmounted while the timer was pending, and the entrance
\* animation has finished after that with the splash left as it was
C14_Witness ==
    /\ ~mounted
    /\ timer = "cleared"
    /\ fadeOut = "idle"
    /\ showWelcome
    /\ op.name = "entranceFinished"

\* C15: a loaded status that reaches handlePlaybackStatusUpdate, and so
\* overwrites position, duration and isPlaying, comes from the session of the
\* video that is current, never from a session that currentVideo has
\* superseded.
C15_NoStaleStatus ==
    [][(op'.name = "handlePlaybackStatusUpdate" /\ op'.arg.isLoaded)
       => session = currentVideo
      ]_vars

\* C16: isLoading is true whenever a loadLocalVideos call is suspended at the
\* enumeration or a playVideo call is suspended at the unload.
C16_LoadingWhileInFlight ==
    (plays # <<>> \/ \E i \in 1..Len(loads) : loads[i].stage = "assets") => isLoading

\* C17: in every state currentVideo is set exactly when playVideo has been
\* called at least once, and no step takes a set currentVideo back to none.
C17_SelectionIsKept ==
    /\ [](currentVideo # None <=> playRequested)
    /\ [][currentVideo # None => currentVideo' # None]_vars

\* a refresh has returned no assets while a video was selected: the list is
\* empty and the selection is still there
C17_Witness ==
    /\ op.name = "assetsResolved"
    /\ op.arg = <<>>
    /\ videoList = <<>>
    /\ currentVideo # None
    /\ playRequested

\* C18: a status that is not loaded changes no state and starts no
\* playNextVideo, whatever its didJustFinish; a loaded status sets position and
\* isPlaying to its fields and duration to its durationMillis, or to 0 when it
\* has none.
C18_StatusFrame ==
    [][op'.name = "handlePlaybackStatusUpdate"
       => IF op'.arg.isLoaded
          THEN /\ position' = op'.arg.positionMillis
               /\ duration' = (IF op'.arg.durationMillis = Undefined THEN 0
                                ELSE op'.arg.durationMillis)
               /\ isPlaying' = op'.arg.isPlaying
          ELSE /\ UNCHANGED <<position, duration, isPlaying, currentVideo>>
               /\ UNCHANGED <<videoList, isLoading, plays, loads, playbackRate, volume>>
               /\ effects' = <<>>
      ]_vars

\* a status that is not loaded and says didJustFinish has arrived during
\* playback and has been ignored
C18_Witness ==
    /\ op.name = "handlePlaybackStatusUpdate"
    /\ ~op.arg.isLoaded
    /\ op.arg.didJustFinish
    /\ currentVideo # None
    /\ position = 12000
    /\ duration = 30000
    /\ isPlaying
    /\ plays = <<>>

\* C19: when no playVideo call is suspended any more, currentVideo is the
\* video of the call that was made last.
C19_LastRequestWins ==
    (plays = <<>> /\ lastRequested # None) => currentVideo = lastRequested

\* C20: when an enumeration result is applied while a video is selected,
\* currentVideo is left as it is and no playVideo call is started for the
\* first asset.
C20_LoadKeepsSelection ==
    [][(op'.name = "assetsResolved" /\ currentVideo # None)
       => /\ currentVideo' = currentVideo
          /\ plays' = plays
          /\ \A k \in 1..Len(effects') :
                effects'[k][1] \notin {"unloadAsync", "scheduleNotificationAsync"}
      ]_vars

\* C21: with a non-empty videoList and a selected currentVideo, in the list or
\* not, playNextVideo and playPreviousVideo (and the playNextVideo at the end
\* of a video) compute an index within 0..length-1 and call playVideo with the
\* entry of videoList at that index.
C21_SkipStaysInList ==
    [][LET n == Len(videoList)
           i == IndexOf(videoList, currentVideo)
           forward == \/ op'.name = "playNextVideo"
                      \/ /\ op'.name = "handlePlaybackStatusUpdate"
                         /\ op'.arg.isLoaded
                         /\ op'.arg.didJustFinish
           back == op'.name = "playPreviousVideo"
           index == IF back THEN PrevIndex(i, n) ELSE NextIndex(i, n)
       IN  ((forward \/ back) /\ n > 0 /\ currentVideo # None)
           => /\ index \in 0..(n - 1)
              /\ plays' = Append(plays, videoList[index + 1])
              /\ \E k \in 1..n : plays'[Len(plays')] = videoList[k]
              /\ effects' = <<<<"unloadAsync", None>>>>
      ]_vars

\* the skip-back button was pressed over a list of one asset that does not
\* hold the selected video, and playVideo was called with that asset
C21_Witness ==
    /\ op.name = "playPreviousVideo"
    /\ Len(videoList) = 1
    /\ currentVideo # None
    /\ currentVideo # videoList[1]
    /\ plays = <<videoList[1]>>

====
